---- MODULE Spec2Model ----
(***************************************************************************)
(* Model of examples/mobgen.py: the script loads input.json into `base`,   *)
(* and for every scale n builds a variant (shallow copy of base whose      *)
(* "mobs" entry is replaced by gen_mobs(n)), dumps it to demo_map_<n>.json  *)
(* and prints a completion line.                                           *)
(*                                                                         *)
(* Python dicts that the script copies or assigns into are objects on a    *)
(* heap (address -> dict), so that aliasing between base, new_map and mobs *)
(* is visible.  Records that are only created and stored (the player, the  *)
(* mob records) are values.  Speeds are in hundredths (0.5 -> 50,          *)
(* 0.42 -> 42).  Asset tags are sequences of characters so that the        *)
(* substring test of line 12 is computed.                                  *)
(***************************************************************************)
EXTENDS Integers, Sequences, FiniteSets, TLC

VARIABLES pc, heap, base, loaded, idx, n, new_map, mobs, i, ret, files, out, err

vars == <<pc, heap, base, loaded, idx, n, new_map, mobs, i, ret, files, out, err>>

----------------------------------------------------------------------------
(* Bounds *)

\* gen_mobs is exercised on its own for every n in 0..MaxN
MaxN == 2

\* random.randint(a, b) is sampled at its Spread+1 lowest outcomes and at b
Spread == 0

----------------------------------------------------------------------------
(* Program constants *)

CoordMin == 100

CoordMax == 600

SpeedImp == 50

SpeedOther == 42

\* a name that is not bound to any object
Unbound == 0

\* the scales of line 27 (500, 5000, ...), scaled down: increasing, positive
Scales == <<1, 2>>

Imp == <<"i", "m", "p", "_", "2", "0", "_", "0">>

Ghost == <<"g", "h", "o", "s", "t", "_", "3", "0", "_", "0">>

MobTypes == {Imp, Ghost}

\* mutant: a third direction
Directions_Mut == {"left", "right", "up"}

Directions == {"left", "right"}

----------------------------------------------------------------------------
(* Pure helpers *)

\* "sub in s" on strings
Contains(sub, s) ==
  \E k \in 0..(Len(s) - Len(sub)) : SubSeq(s, k + 1, k + Len(sub)) = sub

\* mutant: the substring test looks for "_", which every tag contains
SpeedOf_Mut(mob_type) ==
  IF Contains(<<"_">>, mob_type) THEN SpeedImp ELSE SpeedOther

\* speed = 0.5 if "imp" in mob_type else 0.42
SpeedOf(mob_type) ==
  IF Contains(<<"i", "m", "p">>, mob_type) THEN SpeedImp ELSE SpeedOther

\* mutant: the upper end is one too far
RandInt_Mut(a, b) == {v \in a..(b + 1) : v <= a + Spread \/ v = b + 1}

\* the outcomes of random.randint(a, b) (both ends inclusive), sampled
RandInt(a, b) == {v \in a..b : v <= a + Spread \/ v = b}

\* f"mob_{i}"
MobKey(k) == "mob_" \o ToString(k)

\* mutant: the scale is left out of the file name
FileName_Mut(k) == "demo_map_" \o ".json"

\* f"demo_map_{n}.json"
FileName(k) == "demo_map_" \o ToString(k) \o ".json"

\* f"demo_map_{n}.json created"
Notice(k) == FileName(k) \o " created"

\* mutant: range(n)
MobRange_Mut(k) == 0..(k - 1)

\* range(1, n + 1)
MobRange(k) == 1..k

\* the dict literal of lines 14-24
MobRecord(x, y, mob_type, direction) ==
  [x_start |-> x, y_start |-> y, asset |-> mob_type, is_player |-> FALSE,
   behaviour |-> [type |-> "walker", direction |-> direction,
                  speed |-> SpeedOf(mob_type)]]

\* d[k] = v
Put(d, k, v) == [x \in DOMAIN d \cup {k} |-> IF x = k THEN v ELSE d[x]]

\* the heap with object obj at address a
Store(h, a, obj) == [x \in DOMAIN h \cup {a} |-> IF x = a THEN obj ELSE h[x]]

\* a fresh address
Alloc(h) == CHOOSE a \in 1..(Cardinality(DOMAIN h) + 1) :
              a \notin DOMAIN h /\ \A b \in 1..(a - 1) : b \in DOMAIN h

\* objects that are still referenced from the given names
Collect(h, roots) ==
  LET live == roots \cup {h[r]["mobs"] : r \in {q \in roots \cap DOMAIN h :
                                                  "mobs" \in DOMAIN h[q]}}
  IN  [a \in DOMAIN h \cap live |-> h[a]]

----------------------------------------------------------------------------
(* Input documents: the parsed content of input.json *)

Players == {[x |-> 0, y |-> 0], [x |-> 5, y |-> 7]}

Boss == [x_start |-> 300, y_start |-> 300, asset |-> Ghost, is_player |-> FALSE,
         behaviour |-> [type |-> "walker", direction |-> "left", speed |-> SpeedOther]]

BaseDocs ==
  {[title |-> "demo", mobs |-> [player |-> p]] : p \in Players}
    \cup {[title |-> "demo", mobs |-> [player |-> p, boss |-> Boss]] : p \in Players}
    \cup {[title |-> "demo", mobs |-> [boss |-> Boss]]}
    \cup {[title |-> "demo"]}

HasPlayer(doc) == "mobs" \in DOMAIN doc /\ "player" \in DOMAIN doc["mobs"]

\* json.load: the document as objects; the nested mobs dict is its own object
JsonLoad(doc) ==
  IF "mobs" \in DOMAIN doc
    THEN Store(Store(<<>>, 1, [k \in DOMAIN doc |-> IF k = "mobs" THEN 2 ELSE doc[k]]),
               2, doc["mobs"])
    ELSE Store(<<>>, 1, doc)

\* json.dump: the text written for the object at address a, as a document
JsonDump(h, a) ==
  [k \in DOMAIN h[a] |-> IF k = "mobs" THEN h[h[a][k]] ELSE h[a][k]]

\* base.copy(): a new dict with the same keys bound to the same values
ShallowCopy(d) == [k \in DOMAIN d |-> d[k]]

\* mutant: the player is built anew instead of taken from base
NewMobs_Mut(h, b) == [k \in {"player"} |-> [x |-> 0, y |-> 0]]

\* mobs = {"player": base["mobs"]["player"]}
NewMobs(h, b) == [k \in {"player"} |-> h[h[b]["mobs"]]["player"]]

----------------------------------------------------------------------------
(* State *)

Init ==
  /\ pc = "load"
  /\ heap = <<>>
  /\ base = Unbound
  /\ loaded = [title |-> "none"]
  /\ idx = 0
  /\ n = 0
  /\ new_map = Unbound
  /\ mobs = Unbound
  /\ i = 0
  /\ ret = Unbound
  /\ files = <<>>
  /\ out = <<>>
  /\ err = "none"

\* lines 3-4: base = json.load(f)
Load ==
  /\ pc = "load"
  /\ \E doc \in BaseDocs :
       /\ heap' = JsonLoad(doc)
       /\ loaded' = doc
  /\ base' = 1
  /\ pc' = "for"
  /\ UNCHANGED <<idx, n, new_map, mobs, i, ret, files, out, err>>

\* lines 3-4: input.json cannot be opened or is not well-formed
LoadFail ==
  /\ pc = "load"
  /\ \E e \in {"OSError", "JSONDecodeError"} : err' = e
  /\ pc' = "error"
  /\ UNCHANGED <<heap, base, loaded, idx, n, new_map, mobs, i, ret, files, out>>

\* line 27: for n in [...]
LoopNext ==
  /\ pc = "for"
  /\ IF idx < Len(Scales)
       THEN /\ idx' = idx + 1
            /\ n' = Scales[idx + 1]
            /\ pc' = "copy"
       ELSE /\ pc' = "done"
            /\ UNCHANGED <<idx, n>>
  /\ UNCHANGED <<heap, base, loaded, new_map, mobs, i, ret, files, out, err>>

\* mutant: new_map = base (no copy)
Copy_Mut ==
  /\ pc = "copy"
  /\ new_map' = base
  /\ heap' = Collect(heap, {base})
  /\ pc' = "call"
  /\ UNCHANGED <<base, loaded, idx, n, mobs, i, ret, files, out, err>>

\* line 28: new_map = base.copy(); the previous variant is released
Copy ==
  /\ pc = "copy"
  /\ LET a == Alloc(heap)
     IN  /\ new_map' = a
         /\ heap' = Collect(Store(heap, a, ShallowCopy(heap[base])), {base, a})
  /\ pc' = "call"
  /\ UNCHANGED <<base, loaded, idx, n, mobs, i, ret, files, out, err>>

\* line 6, called on its own with any n >= 0
CallGen ==
  /\ pc = "for"
  /\ \E k \in 0..MaxN : n' = k
  /\ pc' = "call"
  /\ UNCHANGED <<heap, base, loaded, idx, new_map, mobs, i, ret, files, out, err>>

\* mutant: a missing player is replaced by a default instead of raising
GenEnter_Mut ==
  /\ pc = "call"
  /\ LET a == Alloc(heap)
         p == IF "mobs" \in DOMAIN heap[base] /\ "player" \in DOMAIN heap[heap[base]["mobs"]]
                THEN heap[heap[base]["mobs"]]["player"]
                ELSE [x |-> 0, y |-> 0]
     IN  /\ mobs' = a
         /\ heap' = Store(heap, a, [k \in {"player"} |-> p])
  /\ i' = 1
  /\ pc' = "gen"
  /\ UNCHANGED <<base, loaded, idx, n, new_map, ret, files, out, err>>

\* lines 7-9: mobs = {"player": base["mobs"]["player"]}, KeyError when absent
GenEnter ==
  /\ pc = "call"
  /\ IF "mobs" \in DOMAIN heap[base] /\ "player" \in DOMAIN heap[heap[base]["mobs"]]
       THEN LET a == Alloc(heap)
            IN  /\ mobs' = a
                /\ heap' = Store(heap, a, NewMobs(heap, base))
                /\ i' = 1
                /\ pc' = "gen"
                /\ err' = err
       ELSE /\ err' = "KeyError"
            /\ pc' = "error"
            /\ UNCHANGED <<heap, mobs, i>>
  /\ UNCHANGED <<base, loaded, idx, n, new_map, ret, files, out>>

\* lines 10-24: one iteration of the for loop
GenStep ==
  /\ pc = "gen"
  /\ i \in MobRange(n)
  /\ \E mob_type \in MobTypes, direction \in Directions,
        x \in RandInt(CoordMin, CoordMax), y \in RandInt(CoordMin, CoordMax) :
       heap' = Store(heap, mobs,
                     Put(heap[mobs], MobKey(i), MobRecord(x, y, mob_type, direction)))
  /\ i' = i + 1
  /\ UNCHANGED <<pc, base, loaded, idx, n, new_map, mobs, ret, files, out, err>>

\* line 10 exhausted, line 25: return mobs
GenReturn ==
  /\ pc = "gen"
  /\ i \notin MobRange(n)
  /\ ret' = mobs
  /\ mobs' = Unbound
  /\ pc' = "assign"
  /\ UNCHANGED <<heap, base, loaded, idx, n, new_map, i, files, out, err>>

\* line 29: new_map["mobs"] = <returned mapping>
Assign ==
  /\ pc = "assign"
  /\ heap' = Store(heap, new_map, Put(heap[new_map], "mobs", ret))
  /\ ret' = Unbound
  /\ pc' = "open"
  /\ UNCHANGED <<base, loaded, idx, n, new_map, mobs, i, files, out, err>>

\* mutant: the completion line is printed before the dump
Open_Mut ==
  /\ pc = "open"
  /\ \/ /\ files' = Put(files, FileName(n), [state |-> "empty"])
        /\ pc' = "print"
        /\ err' = err
     \/ /\ err' = "OSError"
        /\ pc' = "error"
        /\ files' = files
  /\ UNCHANGED <<heap, base, loaded, idx, n, new_map, mobs, i, ret, out>>

\* line 30: open(f"demo_map_{n}.json", "w") creates or truncates the file
Open ==
  /\ pc = "open"
  /\ \/ /\ files' = Put(files, FileName(n), [state |-> "empty"])
        /\ pc' = "dump"
        /\ err' = err
     \/ /\ err' = "OSError"
        /\ pc' = "error"
        /\ files' = files
  /\ UNCHANGED <<heap, base, loaded, idx, n, new_map, mobs, i, ret, out>>

\* mutant: a failed write is swallowed and the loop goes on
Dump_Mut ==
  /\ pc = "dump"
  /\ \/ /\ files' = Put(files, FileName(n),
                        [state |-> "written", doc |-> JsonDump(heap, new_map)])
        /\ pc' = "print"
     \/ /\ files' = Put(files, FileName(n), [state |-> "partial"])
        /\ pc' = "for"
  /\ err' = err
  /\ UNCHANGED <<heap, base, loaded, idx, n, new_map, mobs, i, ret, out>>

\* line 31: json.dump(new_map, f, indent=2), and the close of the with block
Dump ==
  /\ pc = "dump"
  /\ \/ /\ files' = Put(files, FileName(n),
                        [state |-> "written", doc |-> JsonDump(heap, new_map)])
        /\ pc' = "print"
        /\ err' = err
     \/ /\ files' = Put(files, FileName(n), [state |-> "partial"])
        /\ err' = "OSError"
        /\ pc' = "error"
  /\ UNCHANGED <<heap, base, loaded, idx, n, new_map, mobs, i, ret, out>>

\* line 32: print(f"demo_map_{n}.json created")
PrintCreated ==
  /\ pc = "print"
  /\ out' = Append(out, Notice(n))
  /\ pc' = "for"
  /\ UNCHANGED <<heap, base, loaded, idx, n, new_map, mobs, i, ret, files, err>>

Next ==
  \/ Load
  \/ LoadFail
  \/ LoopNext
  \/ Copy
  \/ GenEnter
  \/ GenStep
  \/ GenReturn
  \/ Assign
  \/ Open
  \/ Dump
  \/ PrintCreated

Spec == Init /\ [][Next]_vars

\* gen_mobs(n) alone, for every n in 0..MaxN
NextGen ==
  \/ Load
  \/ LoadFail
  \/ CallGen
  \/ GenEnter
  \/ GenStep
  \/ GenReturn

SpecGen == Init /\ [][NextGen]_vars

TypeOK ==
  /\ pc \in {"load", "for", "copy", "call", "gen", "assign", "open", "dump",
             "print", "done", "error"}
  /\ idx \in 0..Len(Scales)
  /\ err \in {"none", "KeyError", "OSError", "JSONDecodeError"}
  /\ (pc = "error") = (err # "none")

----------------------------------------------------------------------------
(* Properties *)

\* the mapping gen_mobs is building or has returned, and its generated records
GenMap ==
  IF pc = "gen" THEN heap[mobs] ELSE IF pc = "assign" THEN heap[ret] ELSE <<>>

GeneratedMobs == {GenMap[k] : k \in DOMAIN GenMap \ {"player"}}

\* the keys "mob_1" .. "mob_k" together with "player"
ExpectedKeys(k) == {"player"} \cup {MobKey(j) : j \in 1..k}

ScaleFiles == {FileName(Scales[k]) : k \in 1..Len(Scales)}

Written(f) == f \in DOMAIN files /\ files[f].state = "written"

BaseLoaded == base # Unbound

\* C1: for every n >= 0 the mapping returned by gen_mobs(n) has exactly the
\* keys "player", "mob_1", ..., "mob_n": n + 1 keys, numbered from 1 without
\* gaps or duplicates, and only "player" when n = 0.
C1_KeySet ==
  pc = "assign" =>
    /\ DOMAIN heap[ret] = ExpectedKeys(n)
    /\ Cardinality(DOMAIN heap[ret]) = n + 1
    /\ (n = 0 => DOMAIN heap[ret] = {"player"})

C1_Witness ==
  /\ pc = "assign"
  /\ n >= 2
  /\ Cardinality(DOMAIN heap[ret]) = n + 1
  /\ "boss" \in DOMAIN loaded["mobs"]

\* C2: in every variant written, whatever the scale and however many variants
\* were built before, the "player" entry equals the player of the base
\* document as loaded; the same holds of the variant in memory.
C2_PlayerPreserved ==
  /\ \A f \in DOMAIN files :
       files[f].state = "written" =>
         files[f].doc["mobs"]["player"] = loaded["mobs"]["player"]
  /\ pc \in {"gen", "assign"} => GenMap["player"] = loaded["mobs"]["player"]
  /\ pc \in {"open", "dump", "print"} =>
       heap[heap[new_map]["mobs"]]["player"] = loaded["mobs"]["player"]

C2_Witness ==
  /\ idx = 2
  /\ Written(FileName(Scales[1]))
  /\ Written(FileName(Scales[2]))
  /\ loaded["mobs"]["player"] = [x |-> 5, y |-> 7]
  /\ files[FileName(Scales[2])].doc["mobs"]["player"] = [x |-> 5, y |-> 7]

\* C3: every generated mob record has speed 0.5 (50 hundredths) when its asset
\* is "imp_20_0" and 0.42 (42 hundredths) otherwise, and no other speed.
C3_SpeedFromAsset ==
  \A m \in GeneratedMobs :
    /\ m.behaviour.speed \in {50, 42}
    /\ m.behaviour.speed = (IF m.asset = Imp THEN 50 ELSE 42)

C3_Witness ==
  /\ pc = "assign"
  /\ \E m \in GeneratedMobs : m.asset = Imp /\ m.behaviour.speed = 50
  /\ \E m \in GeneratedMobs : m.asset = Ghost /\ m.behaviour.speed = 42

\* C4: every generated mob record has integer coordinates with
\* 100 <= x_start <= 600 and 100 <= y_start <= 600.
C4_CoordRange ==
  \A m \in GeneratedMobs :
    /\ m.x_start \in Int /\ m.y_start \in Int
    /\ 100 <= m.x_start /\ m.x_start <= 600
    /\ 100 <= m.y_start /\ m.y_start <= 600

\* both ends are drawn, and x and y are drawn independently of each other
C4_Witness ==
  /\ pc = "assign"
  /\ \E m \in GeneratedMobs : m.x_start = 100 /\ m.y_start = 600
  /\ \E m \in GeneratedMobs : m.x_start = 600 /\ m.y_start = 100

\* C5: every generated mob record has direction "left" or "right", asset
\* "imp_20_0" or "ghost_30_0", behaviour type "walker" and is_player false.
C5_Domains ==
  \A m \in GeneratedMobs :
    /\ m.behaviour.direction \in {"left", "right"}
    /\ m.asset \in {Imp, Ghost}
    /\ m.behaviour.type = "walker"
    /\ m.is_player = FALSE

C5_Witness ==
  /\ pc = "assign"
  /\ \E m \in GeneratedMobs : m.asset = Imp /\ m.behaviour.direction = "right"
  /\ \E m \in GeneratedMobs : m.asset = Ghost /\ m.behaviour.direction = "left"

\* C6: when the base document lacks mobs.player, the run can only stop in the
\* error state: no mob mapping is ever created, no artifact is opened or
\* written and no completion line is printed.
C6_MissingPlayer ==
  (BaseLoaded /\ ~HasPlayer(loaded)) =>
    /\ pc \in {"for", "copy", "call", "error"}
    /\ pc = "error" => err = "KeyError"
    /\ pc # "error" => ENABLED Next
    /\ mobs = Unbound /\ ret = Unbound
    /\ \A a \in DOMAIN heap : \A k \in DOMAIN heap[a] : k \notin {MobKey(j) : j \in 1..n}
    /\ files = <<>>
    /\ out = <<>>

C6_Witness ==
  /\ BaseLoaded
  /\ ~HasPlayer(loaded)
  /\ pc = "error"
  /\ err = "KeyError"
  /\ files = <<>>

\* C7 as stated: a failed write for one scale does not end the run; the run
\* stops only after every scale of the sequence has been processed.
C7_ContinuesAfterFailure ==
  (BaseLoaded /\ HasPlayer(loaded) /\ pc \in {"done", "error"}) => idx = Len(Scales)

\* C7 amended: a failed write ends the run at that scale: nothing is generated,
\* written or printed for a later scale, the artifacts and notices of the
\* earlier scales stay, and the run ends as a success only when the artifact
\* of every scale was written.
C7_AbortsAtFailure ==
  /\ (BaseLoaded /\ pc = "error" /\ err = "OSError") =>
       /\ ~ENABLED Next
       /\ \A k \in 1..Len(Scales) :
            /\ k < idx => Written(FileName(Scales[k]))
            /\ k = idx => ~Written(FileName(Scales[k]))
            /\ k > idx => FileName(Scales[k]) \notin DOMAIN files
       /\ Len(out) = idx - 1
  /\ pc = "done" => \A k \in 1..Len(Scales) : Written(FileName(Scales[k]))

C7_Witness ==
  /\ BaseLoaded
  /\ pc = "error"
  /\ err = "OSError"
  /\ idx = 1
  /\ FileName(Scales[1]) \in DOMAIN files
  /\ files[FileName(Scales[1])].state = "partial"
  /\ FileName(Scales[2]) \notin DOMAIN files

\* C8: the scales are processed in order, one at a time: the notices printed
\* are those of a prefix of the scales, each for an artifact already written,
\* and generation for a scale starts only when every earlier scale has its
\* artifact written and its notice printed.
C8_NoticeAfterWrite ==
  /\ Len(out) <= Len(Scales)
  /\ \A k \in 1..Len(out) :
       /\ out[k] = Notice(Scales[k])
       /\ Written(FileName(Scales[k]))
  /\ pc \in {"copy", "call", "gen", "assign", "open", "dump", "print"} =>
       /\ Len(out) = idx - 1
       /\ \A k \in 1..(idx - 1) : Written(FileName(Scales[k]))
       /\ \A k \in (idx + 1)..Len(Scales) : FileName(Scales[k]) \notin DOMAIN files
  /\ pc \in {"copy", "call", "gen", "assign", "open"} =>
       FileName(Scales[idx]) \notin DOMAIN files
  /\ pc \in {"for", "done"} /\ BaseLoaded => Len(out) = idx

C8_Witness ==
  /\ pc = "gen"
  /\ idx = 2
  /\ i = 2
  /\ out = <<Notice(Scales[1])>>
  /\ Written(FileName(Scales[1]))

\* C9: a run in which every write succeeds ends with exactly one artifact per
\* scale, named demo_map_<n>.json, one notice per artifact, and each artifact
\* holds the player and exactly the mobs mob_1 .. mob_n of its own scale.
C9_OneArtifactPerScale ==
  pc = "done" =>
    /\ DOMAIN files = ScaleFiles
    /\ Cardinality(DOMAIN files) = Len(Scales)
    /\ \A k \in 1..Len(Scales) :
         /\ FileName(Scales[k]) = "demo_map_" \o ToString(Scales[k]) \o ".json"
         /\ Written(FileName(Scales[k]))
         /\ DOMAIN files[FileName(Scales[k])].doc["mobs"] = ExpectedKeys(Scales[k])
         /\ Cardinality(DOMAIN files[FileName(Scales[k])].doc["mobs"]) = Scales[k] + 1
    /\ Len(out) = Len(Scales)
    /\ \A k \in 1..Len(Scales) : out[k] = Notice(Scales[k])

C9_Witness ==
  /\ pc = "done"
  /\ Cardinality(DOMAIN files) = 2
  /\ "boss" \in DOMAIN loaded["mobs"]
  /\ Len(out) = 2

\* C10: building variants leaves the base document as it was loaded (its mobs
\* mapping included, which never gets a mob_i key), and every variant written
\* equals the base on every top-level field other than mobs.
C10_BaseUnchanged ==
  BaseLoaded =>
    /\ JsonDump(heap, base) = loaded
    /\ \A f \in DOMAIN files :
         files[f].state = "written" =>
           /\ DOMAIN files[f].doc = DOMAIN loaded
           /\ \A k \in DOMAIN loaded \ {"mobs"} : files[f].doc[k] = loaded[k]

C10_Witness ==
  /\ pc = "done"
  /\ JsonDump(heap, base) = loaded
  /\ new_map # base
  /\ heap[new_map]["mobs"] # heap[base]["mobs"]
  /\ \A f \in ScaleFiles : Written(f) /\ files[f].doc["title"] = loaded["title"]

====
